---------------------------- MODULE Spec2Model ----------------------------
(***************************************************************************)
(* Model of toss-mcp: the markdown chunker (chunker.py), the keyword       *)
(* searcher (searcher.py), the hash/chunk cache (cache.py) and the         *)
(* service operations that tie them together (main.py, collector.py).      *)
(*                                                                         *)
(* Text is modelled as a sequence of one-character strings, so that        *)
(* strip(), split(), regular-expression matching and substring search are  *)
(* computed character by character as Python computes them.                *)
(***************************************************************************)
EXTENDS Integers, Sequences, FiniteSets, TLC

VARIABLES
    doc,            \* chunker: the document handed to chunk_document
    chunked,        \* chunker: the list chunk_document returned
    chunk_pc,       \* chunker: "start" before the call, else the path taken
    chunks_file,    \* cache: ~/.toss-mcp-cache/chunks.json
    hashes_file,    \* cache: ~/.toss-mcp-cache/hashes.json
    last_op,        \* cache: the cache.py function called last
    last_arg,       \* cache: the mapping it was called with
    last_ret,       \* cache: what it returned
    last_update,    \* cache: the argument of the latest update_hashes call
    s_chunks,       \* searcher: the chunks argument of search
    s_query,        \* searcher: the query argument
    s_source,       \* searcher: the source argument
    s_max,          \* searcher: the max_results argument
    s_result,       \* searcher: the list search returned
    s_pc,           \* searcher: "start" before the call, "done" after
    _chunks,        \* main: the module-level fragment list
    phase,          \* main: "starting", "serving" or "crashed"
    tasks,          \* main: the lifespan task (0) and the tool calls, by number
    started,        \* main: how many tool calls have been made
    bound,          \* main: the list the latest assignment to _chunks bound
    last_search     \* main: what the latest search_docs call ranked over

chunkVars == <<doc, chunked, chunk_pc>>
fileVars == <<chunks_file, hashes_file>>
cacheVars == <<last_op, last_arg, last_ret, last_update>>
searchVars == <<s_chunks, s_query, s_source, s_max, s_result, s_pc>>
mainVars == <<_chunks, phase, tasks, started, bound, last_search>>

-----------------------------------------------------------------------------
(* Bounds of the model.                                                    *)

\* Longest document content the chunker is run on, in characters.
MaxDocLen == 8

\* chunker.py:8 sets MAX_CHUNK_LEN = 3000.  The model runs the same code with
\* a limit scaled to the document sizes it can enumerate.
MAX_CHUNK_LEN == 4

-----------------------------------------------------------------------------
(* Character-level helpers: Python str operations.                         *)

NL == "\n"

\* The characters documents are built from: a heading marker, the two
\* whitespace characters the code distinguishes, and an ordinary character.
DocChars == {"#", " ", NL, "x"}

\* str.strip() / str.isspace(): whitespace characters.
IsSpace(c) == c \in {" ", NL}

SetMin(S) == CHOOSE x \in S : \A y \in S : x <= y
SetMax(S) == CHOOSE x \in S : \A y \in S : x >= y

\* s.strip()
strip(s) ==
    LET idx == {i \in 1..Len(s) : ~IsSpace(s[i])}
    IN  IF idx = {} THEN <<>> ELSE SubSeq(s, SetMin(idx), SetMax(idx))

\* s.lstrip("#")
lstrip_hash(s) ==
    LET idx == {i \in 1..Len(s) : s[i] # "#"}
    IN  IF idx = {} THEN <<>> ELSE SubSeq(s, SetMin(idx), Len(s))

\* s[i:].startswith(m), i counted from 1
StartsWithAt(s, i, m) ==
    /\ i + Len(m) - 1 <= Len(s)
    /\ SubSeq(s, i, i + Len(m) - 1) = m

RECURSIVE SortedSeq(_)
SortedSeq(S) ==
    IF S = {} THEN <<>>
    ELSE LET m == SetMin(S) IN <<m>> \o SortedSeq(S \ {m})

RECURSIVE Flatten(_)
Flatten(ss) ==
    IF ss = <<>> THEN <<>> ELSE Head(ss) \o Flatten(Tail(ss))

\* s.split("\n"): split at every newline, keeping empty pieces
RECURSIVE split_nl(_, _, _)
split_nl(s, i, cur) ==
    IF i > Len(s) THEN <<cur>>
    ELSE IF s[i] = NL THEN <<cur>> \o split_nl(s, i + 1, <<>>)
    ELSE split_nl(s, i + 1, Append(cur, s[i]))

\* index of the first character at or after i that is not a newline
RECURSIVE SkipNewlines(_, _)
SkipNewlines(s, i) ==
    IF i <= Len(s) /\ s[i] = NL THEN SkipNewlines(s, i + 1) ELSE i

\* re.split(r"\n\n+", s): split at every maximal run of two or more newlines
RECURSIVE re_split_blank(_, _, _)
re_split_blank(s, i, cur) ==
    IF i > Len(s) THEN <<cur>>
    ELSE IF s[i] = NL /\ i + 1 <= Len(s) /\ s[i + 1] = NL
         THEN <<cur>> \o re_split_blank(s, SkipNewlines(s, i), <<>>)
    ELSE re_split_blank(s, i + 1, Append(cur, s[i]))

\* s.splitlines(): like split("\n") but without a trailing empty piece
splitlines(s) ==
    IF s = <<>> THEN <<>>
    ELSE LET ls == split_nl(s, 1, <<>>)
         IN  IF ls[Len(ls)] = <<>> THEN SubSeq(ls, 1, Len(ls) - 1) ELSE ls

\* Every sequence over S of length at most n
RECURSIVE SeqsUpTo(_, _)
SeqsUpTo(S, n) ==
    IF n = 0 THEN {<<>>}
    ELSE LET shorter == SeqsUpTo(S, n - 1)
         IN  shorter \cup {Append(s, c) : s \in {t \in shorter : Len(t) = n - 1}, c \in S}

\* "\n\n" and "\n" as joiners
JoinBlank(a, b) == a \o <<NL, NL>> \o b
JoinLine(a, b) == a \o <<NL>> \o b

-----------------------------------------------------------------------------
(* chunker.py                                                               *)

\* re.compile(r"^# ", re.MULTILINE) and its H2, H3 siblings: the literal a
\* match consists of; ^ anchors it at the start of a line.
H1_PATTERN == <<"#", " ">>
H2_PATTERN == <<"#", "#", " ">>
H3_PATTERN == <<"#", "#", "#", " ">>

\* [m.start() for m in pattern.finditer(text)], positions counted from 1
finditer(text, pattern) ==
    SortedSeq({i \in 1..Len(text) :
                  /\ (i = 1 \/ text[i - 1] = NL)
                  /\ StartsWithAt(text, i, pattern)})

_extract_header(text) ==
    LET lines == splitlines(strip(text))
        hits == {i \in 1..Len(lines) :
                    LET stripped == strip(lines[i])
                    IN  stripped # <<>> /\ stripped[1] = "#"}
    IN  IF hits = {} THEN <<>>
        ELSE strip(lstrip_hash(strip(lines[SetMin(hits)])))

\* A variant that forgets the text in front of the first heading.
_split_by_pattern_no_preamble(text, pattern) ==
    LET positions == finditer(text, pattern)
        part(i) ==
            LET end == IF i + 1 <= Len(positions)
                       THEN positions[i + 1] - 1 ELSE Len(text)
            IN  strip(SubSeq(text, positions[i], end))
    IN  IF positions = <<>> THEN <<text>>
        ELSE SelectSeq([i \in 1..Len(positions) |-> part(i)], LAMBDA p : p # <<>>)

_split_by_pattern(text, pattern) ==
    LET positions == finditer(text, pattern)
    IN  IF positions = <<>> THEN <<text>>
        ELSE
          LET preamble == strip(SubSeq(text, 1, positions[1] - 1))
              first == IF positions[1] > 1 /\ preamble # <<>>
                       THEN <<preamble>> ELSE <<>>
              part(i) ==
                  LET end == IF i + 1 <= Len(positions)
                             THEN positions[i + 1] - 1 ELSE Len(text)
                  IN  strip(SubSeq(text, positions[i], end))
              rest == [i \in 1..Len(positions) |-> part(i)]
          IN  first \o SelectSeq(rest, LAMBDA p : p # <<>>)

\* The loop of _split_by_lines: lines[i..] folded into (chunks, current).
RECURSIVE split_by_lines_loop(_, _, _, _)
split_by_lines_loop(lines, i, chunks, current) ==
    IF i > Len(lines)
    THEN IF strip(current) # <<>> THEN Append(chunks, strip(current)) ELSE chunks
    ELSE
      LET line == lines[i]
      IN  IF Len(current) + Len(line) + 1 > MAX_CHUNK_LEN /\ current # <<>>
          THEN split_by_lines_loop(lines, i + 1,
                                   Append(chunks, strip(current)), line)
          ELSE split_by_lines_loop(lines, i + 1, chunks,
                   IF current # <<>> THEN JoinLine(current, line) ELSE line)

\* A variant that leaves an over-length paragraph whole.
_split_by_lines_whole(text) == <<text>>

_split_by_lines(text) ==
    LET chunks == split_by_lines_loop(split_nl(text, 1, <<>>), 1, <<>>, <<>>)
    IN  IF chunks # <<>> THEN chunks ELSE <<text>>

\* The loop of _force_split: paragraphs[i..] folded into (chunks, current).
RECURSIVE force_split_loop(_, _, _, _)
force_split_loop(paragraphs, i, chunks, current) ==
    IF i > Len(paragraphs)
    THEN IF strip(current) # <<>> THEN Append(chunks, strip(current)) ELSE chunks
    ELSE
      LET para == paragraphs[i]
      IN  IF Len(para) > MAX_CHUNK_LEN
          THEN IF strip(current) # <<>>
               THEN force_split_loop(paragraphs, i + 1,
                        Append(chunks, strip(current)) \o _split_by_lines(para),
                        <<>>)
               ELSE force_split_loop(paragraphs, i + 1,
                        chunks \o _split_by_lines(para), current)
          ELSE IF Len(current) + Len(para) + 2 > MAX_CHUNK_LEN /\ current # <<>>
          THEN force_split_loop(paragraphs, i + 1,
                                Append(chunks, strip(current)), para)
          ELSE force_split_loop(paragraphs, i + 1, chunks,
                   IF current # <<>> THEN JoinBlank(current, para) ELSE para)

_force_split(text) ==
    LET chunks == force_split_loop(re_split_blank(text, 1, <<>>), 1, <<>>, <<>>)
    IN  IF chunks # <<>> THEN chunks ELSE <<text>>

RECURSIVE _split_chunk(_)
_split_chunk(text) ==
    IF Len(text) <= MAX_CHUNK_LEN THEN <<text>>
    ELSE
      LET h2 == _split_by_pattern(text, H2_PATTERN)
          h3 == _split_by_pattern(text, H3_PATTERN)
      IN  IF Len(h2) > 1
          THEN Flatten([i \in 1..Len(h2) |-> _split_chunk(h2[i])])
          ELSE IF Len(h3) > 1
          THEN Flatten([i \in 1..Len(h3) |-> _split_chunk(h3[i])])
          ELSE _force_split(text)

chunk_document(d) ==
    LET h1_parts == _split_by_pattern(d.content, H1_PATTERN)
        sub_parts == Flatten([i \in 1..Len(h1_parts) |-> _split_chunk(h1_parts[i])])
    IN  [i \in 1..Len(sub_parts) |->
            [source  |-> d.source,
             url     |-> d.url,
             header  |-> _extract_header(sub_parts[i]),
             content |-> strip(sub_parts[i])]]

-----------------------------------------------------------------------------
(* searcher.py                                                              *)

MAX_RESULTS == 10

\* source=None
NoSource == "<None>"

\* str.lower(), on the letters the model uses
lower_char(c) ==
    IF c = "A" THEN "a" ELSE IF c = "B" THEN "b" ELSE IF c = "C" THEN "c" ELSE c

lower(s) == [i \in 1..Len(s) |-> lower_char(s[i])]

\* str.split(): the maximal runs of non-whitespace characters
RECURSIVE split_ws(_, _, _)
split_ws(s, i, cur) ==
    IF i > Len(s) THEN IF cur # <<>> THEN <<cur>> ELSE <<>>
    ELSE IF IsSpace(s[i])
         THEN (IF cur # <<>> THEN <<cur>> ELSE <<>>) \o split_ws(s, i + 1, <<>>)
    ELSE split_ws(s, i + 1, Append(cur, s[i]))

\* kw in searchable
contains(searchable, kw) ==
    \E i \in 1..(Len(searchable) + 1) : StartsWithAt(searchable, i, kw)

\* (chunk["header"] + " " + chunk["content"]).lower()
searchable_of(chunk) == lower(chunk.header \o <<" ">> \o chunk.content)

\* A variant that counts a keyword once however often the query repeats it.
matched_keywords_once(chunk, keywords) ==
    SelectSeq([k \in 1..Len(keywords) |->
                   IF \E j \in 1..(k - 1) : keywords[j] = keywords[k]
                   THEN <<>> ELSE keywords[k]],
              LAMBDA kw : kw # <<>> /\ contains(searchable_of(chunk), kw))

\* matched = [kw for kw in keywords if kw in searchable]
matched_keywords(chunk, keywords) ==
    SelectSeq(keywords, LAMBDA kw : contains(searchable_of(chunk), kw))

\* list.sort(key=lambda x: -x["match_count"]): a stable sort, here by
\* insertion from the left.
RECURSIVE insert_sorted(_, _)
insert_sorted(sorted, entry) ==
    IF sorted = <<>> THEN <<entry>>
    ELSE IF -sorted[Len(sorted)].match_count <= -entry.match_count
         THEN Append(sorted, entry)
    ELSE Append(insert_sorted(SubSeq(sorted, 1, Len(sorted) - 1), entry),
                sorted[Len(sorted)])

RECURSIVE sort_by_match_count(_)
sort_by_match_count(entries) ==
    IF entries = <<>> THEN <<>>
    ELSE insert_sorted(sort_by_match_count(SubSeq(entries, 1, Len(entries) - 1)),
                       entries[Len(entries)])

\* results[:max_results]
slice_to(results, n) ==
    IF n >= 0 THEN SubSeq(results, 1, IF n < Len(results) THEN n ELSE Len(results))
    ELSE SubSeq(results, 1, Len(results) + n)

\* The entry search builds for a chunk that matched.
entry_of(chunk, keywords) ==
    LET match_count == Len(matched_keywords(chunk, keywords))
    IN  [source      |-> chunk.source,
         url         |-> chunk.url,
         header      |-> chunk.header,
         content     |-> chunk.content,
         match_count |-> match_count,
         match_ratio |-> <<match_count, Len(keywords)>>]

\* A variant that puts the partial matches first.
search_partial_first(chunks, query, source, max_results) ==
    LET keywords == split_ws(lower(query), 1, <<>>)
        candidates == IF source \notin {NoSource, ""}
                      THEN SelectSeq(chunks, LAMBDA c : c.source = source)
                      ELSE chunks
        hits == SelectSeq(candidates,
                          LAMBDA c : Len(matched_keywords(c, keywords)) # 0)
        entries == [i \in 1..Len(hits) |-> entry_of(hits[i], keywords)]
        exact_matches ==
            SelectSeq(entries, LAMBDA e : e.match_count = Len(keywords))
        partial_matches ==
            SelectSeq(entries, LAMBDA e : e.match_count # Len(keywords))
    IN  IF keywords = <<>> THEN <<>>
        ELSE slice_to(sort_by_match_count(partial_matches)
                          \o sort_by_match_count(exact_matches), max_results)

\* search(chunks, query, source, max_results); match_ratio is kept as the
\* pair (match_count, len(keywords)) it is the quotient of.
search(chunks, query, source, max_results) ==
    LET keywords == split_ws(lower(query), 1, <<>>)
        candidates == IF source \notin {NoSource, ""}
                      THEN SelectSeq(chunks, LAMBDA c : c.source = source)
                      ELSE chunks
        hits == SelectSeq(candidates,
                          LAMBDA c : Len(matched_keywords(c, keywords)) # 0)
        entries == [i \in 1..Len(hits) |-> entry_of(hits[i], keywords)]
        exact_matches ==
            SelectSeq(entries, LAMBDA e : e.match_count = Len(keywords))
        partial_matches ==
            SelectSeq(entries, LAMBDA e : e.match_count # Len(keywords))
    IN  IF keywords = <<>> THEN <<>>
        ELSE slice_to(sort_by_match_count(exact_matches)
                          \o sort_by_match_count(partial_matches), max_results)

-----------------------------------------------------------------------------
(* cache.py                                                                 *)

\* A persisted file is absent, holds text that is not JSON, or holds the
\* JSON text of a value; json.dumps followed by json.loads gives the value
\* back, so a well-formed file is represented by the value it encodes.
Absent == [state |-> "absent", data |-> <<>>]
Malformed == [state |-> "malformed", data |-> <<>>]
FileOf(value) == [state |-> "ok", data |-> value]

EmptyMap == [k \in {} |-> <<>>]

\* dict.get(key): the value, or None
None == <<"None">>
dict_get(d, key) == IF key \in DOMAIN d THEN d[key] ELSE None

\* hashlib.sha256(text).hexdigest(): a digest that identifies the text
\* (SHA-256 is treated as collision-free).
compute_hash_colliding(text) == <<"sha256", <<>>>>
compute_hash(text) == <<"sha256", text>>

\* load_hashes(): json.loads raises on text that is not JSON.
load_hashes(hfile) ==
    IF hfile.state = "ok" THEN [raised |-> FALSE, value |-> hfile.data]
    ELSE IF hfile.state = "malformed" THEN [raised |-> TRUE, value |-> EmptyMap]
    ELSE [raised |-> FALSE, value |-> EmptyMap]

save_hashes(hashes) == FileOf(hashes)

\* load_chunks(): the list, None when the file is absent; json.loads raises
\* on text that is not JSON.
load_chunks(cfile) ==
    IF cfile.state = "ok" THEN [raised |-> FALSE, none |-> FALSE, value |-> cfile.data]
    ELSE IF cfile.state = "malformed" THEN [raised |-> TRUE, none |-> FALSE, value |-> <<>>]
    ELSE [raised |-> FALSE, none |-> TRUE, value |-> <<>>]

save_chunks(chunks) == FileOf(chunks)

\* The keys of a dict in a fixed iteration order.
RECURSIVE KeySeq(_)
KeySeq(S) ==
    IF S = {} THEN <<>>
    ELSE LET k == CHOOSE x \in S : TRUE IN <<k>> \o KeySeq(S \ {k})

\* The for loop of needs_refresh: TRUE as soon as one key's digest differs.
RECURSIVE needs_refresh_loop(_, _, _)
needs_refresh_loop(saved, current_raw_texts, keys) ==
    IF keys = <<>> THEN FALSE
    ELSE IF dict_get(saved, Head(keys)) # compute_hash(current_raw_texts[Head(keys)])
    THEN TRUE
    ELSE needs_refresh_loop(saved, current_raw_texts, Tail(keys))

\* A variant that walks the stored record instead of the argument.
needs_refresh_all_stored(hfile, cfile, current_raw_texts) ==
    LET loaded == load_hashes(hfile)
        saved == loaded.value
    IN  IF loaded.raised THEN "raised"
        ELSE IF \E k \in DOMAIN saved \cup DOMAIN current_raw_texts :
                   \/ k \notin DOMAIN current_raw_texts
                   \/ dict_get(saved, k) # compute_hash(current_raw_texts[k])
        THEN "true"
        ELSE IF cfile.state = "absent" THEN "true"
        ELSE "false"

\* needs_refresh(current_raw_texts): "true", "false", or "raised" when
\* load_hashes raises.
needs_refresh(hfile, cfile, current_raw_texts) ==
    LET loaded == load_hashes(hfile)
    IN  IF loaded.raised THEN "raised"
        ELSE IF needs_refresh_loop(loaded.value, current_raw_texts,
                                   KeySeq(DOMAIN current_raw_texts))
        THEN "true"
        ELSE IF cfile.state = "absent" THEN "true"
        ELSE "false"

update_hashes(raw_texts) ==
    save_hashes([key \in DOMAIN raw_texts |-> compute_hash(raw_texts[key])])

-----------------------------------------------------------------------------
(* collector.py                                                             *)

\* SOURCES, in dict order.
SOURCES ==
    <<[key |-> "apps_in_toss", name |-> "apps-in-toss", type |-> "seed",
       llms_url |-> "https://developers-apps-in-toss.toss.im/llms.txt"],
      [key |-> "tds_react_native", name |-> "TDS React Native", type |-> "full",
       llms_url |-> "https://tossmini-docs.toss.im/tds-react-native/llms-full.txt"],
      [key |-> "tds_mobile", name |-> "TDS Mobile", type |-> "full",
       llms_url |-> "https://tossmini-docs.toss.im/tds-mobile/llms-full.txt"]>>

\* The markdown link "[p](http://p)" of an index file, kept as one symbol of
\* the text.
LinkToken == "[p](http://p)"

\* What each URL serves when the request succeeds.
RemoteText(url) ==
    IF url = SOURCES[1].llms_url THEN <<LinkToken>>
    ELSE IF url = SOURCES[2].llms_url THEN <<"#", " ", "r">>
    ELSE IF url = SOURCES[3].llms_url THEN <<"m">>
    ELSE <<"#", " ", "p">>

\* fetch_text / fetch_single_source_raw: the text, or None on any failure.
FetchOutcomes(url) ==
    {[ok |-> FALSE, text |-> <<>>], [ok |-> TRUE, text |-> RemoteText(url)]}

\* parse_links: the [title](url) links of the text, in order.
parse_links(llms_txt) ==
    LET hits == SelectSeq(llms_txt, LAMBDA c : c = LinkToken)
    IN  [i \in 1..Len(hits) |-> [title |-> "p", url |-> "http://p"]]

\* fetch_seed_pages: one document per link whose page was fetched and is not
\* empty, in the order the requests completed.
fetch_seed_pages_results(links) ==
    LET page_docs(i) ==
            {[source |-> "apps_in_toss", url |-> links[i].url,
              title |-> links[i].title, content |-> o.text] :
                o \in {x \in FetchOutcomes(links[i].url) : x.ok /\ x.text # <<>>}}
        docs == UNION {page_docs(i) : i \in 1..Len(links)}
    IN  {ds \in SeqsUpTo(docs, Len(links)) :
            \A a, b \in 1..Len(ds) : a # b => ds[a].url # ds[b].url}

\* One pass of the loop of collect_all, for SOURCES[i]: every value result
\* can have after it.
collect_step_results(result, i) ==
    LET source == SOURCES[i]
        key == source.key
        got == {o \in FetchOutcomes(source.llms_url) : o.ok}
        documents_for(raw) ==
            IF source.type = "full"
            THEN {<<[source |-> key, url |-> source.llms_url,
                     title |-> source.name, content |-> raw]>>}
            ELSE fetch_seed_pages_results(parse_links(raw))
    IN  {result}
        \cup
        UNION {{result @@ (key :> [raw_text |-> o.text, documents |-> ds]) :
                   ds \in documents_for(o.text)} : o \in got}

\* The keys of a collected mapping in insertion order, which is that of
\* SOURCES.
collected_keys(collected) ==
    LET present == SelectSeq(SOURCES, LAMBDA src : src.key \in DOMAIN collected)
    IN  [i \in 1..Len(present) |-> present[i].key]

\* chunker.py chunk_all
chunk_all(collected) ==
    LET keys == collected_keys(collected)
        per_source(k) ==
            LET docs == collected[k].documents
            IN  Flatten([j \in 1..Len(docs) |-> chunk_document(docs[j])])
    IN  Flatten([i \in 1..Len(keys) |-> per_source(keys[i])])

-----------------------------------------------------------------------------
(* main.py                                                                  *)

\* if cached: the loaded value is neither None nor an empty list
cache_hit_never(loaded) == FALSE
cache_hit(loaded) == ~loaded.none /\ loaded.value # <<>>

\* raw_texts = {k: v["raw_text"] for k, v in collected.items()}
raw_texts_of(collected) == [k \in DOMAIN collected |-> collected[k].raw_text]

\* While collect_all runs it fills its local result; _chunks is not written
\* before the assignment that follows the call.
chunks_published_early(chunks, result) == chunk_all(result)
chunks_during_collect(chunks, result) == chunks

\* search_docs(query, source)
search_docs(chunks, query, source) ==
    IF chunks = <<>> THEN [kind |-> "not_loaded", results |-> <<>>]
    ELSE LET results == search(chunks, query, source, MAX_RESULTS)
         IN  IF results = <<>> THEN [kind |-> "no_results", results |-> <<>>]
             ELSE [kind |-> "results", results |-> results]

-----------------------------------------------------------------------------
(* Specification of the cache layer: the functions of cache.py called in   *)
(* any order, from any content of the two files.                           *)

CacheKeys == {"a", "b"}
text1 == <<"x">>
text2 == <<"y">>
CacheTexts == {text1, text2}

\* Digests a stored record can hold: those of the texts above and one of a
\* text that is none of them.
StoredDigests == {compute_hash(t) : t \in CacheTexts \cup {<<"z">>}}

Mappings(K, V) == UNION {[S -> V] : S \in SUBSET K}

\* A fragment list to persist.
SomeChunks ==
    <<[source |-> "a", url |-> "u", header |-> <<>>, content |-> <<"x">>]>>

\* How many tool calls (sync_sources, search_docs) the server receives.
MaxCalls == 2

Calls == 0..MaxCalls

\* A task: the operation it runs, where it is, and its local variables
\* (i, collected, raw_texts), which are gone once it has returned ret.
NewTask ==
    [op |-> "none", pc |-> "new", i |-> 1, collected |-> EmptyMap,
     raw_texts |-> EmptyMap, ret |-> "none", count |-> 0]

NoSearch ==
    [done |-> FALSE, chunks |-> <<>>, bound |-> <<>>,
     ret |-> [kind |-> "none", results |-> <<>>]]

MainIdle ==
    /\ _chunks = <<>>
    /\ phase = "starting"
    /\ tasks = [t \in Calls |-> NewTask]
    /\ started = 0
    /\ bound = <<>>
    /\ last_search = NoSearch

ChunkIdle ==
    /\ doc = [source |-> "a", url |-> "u", title |-> "t", content |-> <<>>]
    /\ chunked = <<>>
    /\ chunk_pc = "start"

SearchIdle ==
    /\ s_chunks = <<>>
    /\ s_query = <<>>
    /\ s_source = NoSource
    /\ s_max = MAX_RESULTS
    /\ s_result = <<>>
    /\ s_pc = "start"

CacheIdle ==
    /\ last_op = "none"
    /\ last_arg = EmptyMap
    /\ last_ret = "none"
    /\ last_update = [called |-> FALSE, raw |-> EmptyMap]

CacheInit ==
    /\ CacheIdle
    /\ MainIdle
    /\ hashes_file \in {Absent, Malformed}
                       \cup {FileOf(m) : m \in Mappings(CacheKeys, StoredDigests)}
    /\ chunks_file \in {Absent, Malformed, FileOf(<<>>), FileOf(SomeChunks)}
    /\ ChunkIdle
    /\ SearchIdle

NeedsRefresh ==
    \E cur \in Mappings(CacheKeys, CacheTexts) :
        /\ last_op' = "needs_refresh"
        /\ last_arg' = cur
        /\ last_ret' = needs_refresh(hashes_file, chunks_file, cur)
        /\ UNCHANGED <<fileVars, last_update, chunkVars, searchVars, mainVars>>

UpdateHashes ==
    \E raw \in Mappings(CacheKeys, CacheTexts) :
        /\ hashes_file' = update_hashes(raw)
        /\ last_op' = "update_hashes"
        /\ last_arg' = raw
        /\ last_ret' = "none"
        /\ last_update' = [called |-> TRUE, raw |-> raw]
        /\ UNCHANGED <<chunks_file, chunkVars, searchVars, mainVars>>

SaveChunks ==
    \E c \in {<<>>, SomeChunks} :
        /\ chunks_file' = save_chunks(c)
        /\ last_op' = "save_chunks"
        /\ last_arg' = EmptyMap
        /\ last_ret' = "none"
        /\ UNCHANGED <<hashes_file, last_update, chunkVars, searchVars, mainVars>>

LoadChunks ==
    /\ last_op' = "load_chunks"
    /\ last_arg' = EmptyMap
    /\ last_ret' = LET r == load_chunks(chunks_file)
                   IN  IF r.raised THEN "raised"
                       ELSE IF r.none THEN "None" ELSE "list"
    /\ UNCHANGED <<fileVars, last_update, chunkVars, searchVars, mainVars>>

LoadHashes ==
    /\ last_op' = "load_hashes"
    /\ last_arg' = EmptyMap
    /\ last_ret' = IF load_hashes(hashes_file).raised THEN "raised" ELSE "dict"
    /\ UNCHANGED <<fileVars, last_update, chunkVars, searchVars, mainVars>>

CacheNext ==
    \/ NeedsRefresh
    \/ UpdateHashes
    \/ SaveChunks
    \/ LoadChunks
    \/ LoadHashes

-----------------------------------------------------------------------------
(* Specification of the searcher: search called once on every fragment     *)
(* list, query, source filter and result limit within the bounds.          *)

\* Longest fragment list searched, and most tokens in a query.
MaxChunks == 3
MaxTokens == 3

SearchSources == {"apps_in_toss", "tds_mobile"}

\* The fragments searched: with all or some of the tokens a, b, c, in the
\* header or in the content, in upper or lower case.
SearchPool ==
    {[source |-> "tds_mobile", url |-> "u1", header |-> <<>>,
      content |-> <<"a", "b", " ", "C">>],
     [source |-> "tds_mobile", url |-> "u2", header |-> <<"c">>,
      content |-> <<"A">>],
     [source |-> "apps_in_toss", url |-> "u3", header |-> <<>>,
      content |-> <<"a">>],
     [source |-> "apps_in_toss", url |-> "u4", header |-> <<"B">>,
      content |-> <<"c", "a">>]}

SearchTokens == {<<"a">>, <<"b">>, <<"C">>}

RECURSIVE join_space(_)
join_space(tokens) ==
    IF tokens = <<>> THEN <<>>
    ELSE IF Len(tokens) = 1 THEN tokens[1]
    ELSE tokens[1] \o <<" ">> \o join_space(Tail(tokens))

\* Queries: up to MaxTokens tokens separated by single spaces, and the same
\* with surrounding whitespace.
SearchQueries ==
    LET plain == {join_space(ts) : ts \in SeqsUpTo(SearchTokens, MaxTokens)}
    IN  plain \cup {<<" ">> \o q \o <<NL>> : q \in {p \in plain : Len(p) <= 1}}

SearchInit ==
    /\ CacheIdle
    /\ MainIdle
    /\ ChunkIdle
    /\ chunks_file = Absent
    /\ hashes_file = Absent
    /\ s_chunks \in SeqsUpTo(SearchPool, MaxChunks)
    /\ s_query \in SearchQueries
    /\ s_source \in {NoSource, "tds_mobile"}
    /\ s_max \in {2, MAX_RESULTS}
    /\ s_result = <<>>
    /\ s_pc = "start"

Search ==
    /\ s_pc = "start"
    /\ s_result' = search(s_chunks, s_query, s_source, s_max)
    /\ s_pc' = "done"
    /\ UNCHANGED <<s_chunks, s_query, s_source, s_max, chunkVars, fileVars, cacheVars, mainVars>>

SearchNext == Search

-----------------------------------------------------------------------------
(* Specification of the service: the lifespan's _init_chunks, then tool    *)
(* calls that interleave at their await points.  Each action is the code   *)
(* one task runs between two awaits.                                       *)

\* A fragment list and a hash record left by an earlier run.
CachedChunks ==
    <<[source |-> "tds_mobile", url |-> SOURCES[3].llms_url, header |-> <<>>,
       content |-> <<"o">>]>>
CachedHashes == [k \in {"tds_mobile"} |-> compute_hash(<<"o">>)]

MainQueries == {<<"m">>, <<"p", " ", "R">>}

MainInit ==
    /\ CacheIdle
    /\ ChunkIdle
    /\ SearchIdle
    /\ MainIdle
    /\ chunks_file \in {Absent, Malformed, FileOf(<<>>), FileOf(CachedChunks)}
    /\ hashes_file \in {Absent, Malformed, FileOf(CachedHashes)}

\* _init_chunks up to its first await, run by task t for operation op.
InitChunksBegin(t, op) ==
    LET loaded == load_chunks(chunks_file)
    IN  IF loaded.raised
        THEN /\ tasks' = [tasks EXCEPT ![t] =
                             [NewTask EXCEPT !.op = op, !.pc = "done", !.ret = "raised"]]
             /\ phase' = IF op = "startup" THEN "crashed" ELSE phase
             /\ UNCHANGED <<_chunks, bound>>
        ELSE IF cache_hit(loaded)
        THEN /\ _chunks' = loaded.value
             /\ bound' = loaded.value
             /\ tasks' = [tasks EXCEPT ![t] =
                             [NewTask EXCEPT !.op = op, !.pc = "done", !.ret = "cached",
                                             !.count = Len(loaded.value)]]
             /\ phase' = "serving"
        ELSE /\ tasks' = [tasks EXCEPT ![t] =
                             [NewTask EXCEPT !.op = op, !.pc = "collect"]]
             /\ UNCHANGED <<_chunks, bound, phase>>

\* lifespan: await _init_chunks()
Startup ==
    /\ phase = "starting"
    /\ tasks[0].pc = "new"
    /\ InitChunksBegin(0, "startup")
    /\ UNCHANGED <<started, last_search, fileVars, chunkVars, cacheVars, searchVars>>

\* sync_sources(force=False)
CallSync ==
    /\ phase = "serving"
    /\ started < MaxCalls
    /\ started' = started + 1
    /\ InitChunksBegin(started + 1, "sync")
    /\ UNCHANGED <<last_search, fileVars, chunkVars, cacheVars, searchVars>>

\* sync_sources(force=True) up to the first await of collect_all
CallForce ==
    /\ phase = "serving"
    /\ started < MaxCalls
    /\ started' = started + 1
    /\ tasks' = [tasks EXCEPT ![started + 1] =
                    [NewTask EXCEPT !.op = "sync_force", !.pc = "collect"]]
    /\ UNCHANGED <<_chunks, bound, phase, last_search, fileVars, chunkVars,
                   cacheVars, searchVars>>

\* collect_all: the fetch of one source completes.
CollectFetch ==
    \E t \in Calls :
        /\ tasks[t].pc = "collect"
        /\ \E result \in collect_step_results(tasks[t].collected, tasks[t].i) :
               /\ tasks' = [tasks EXCEPT ![t].collected = result,
                                         ![t].i = @ + 1,
                                         ![t].pc = IF tasks[t].i = Len(SOURCES)
                                                   THEN "assign" ELSE "collect"]
               /\ _chunks' = chunks_during_collect(_chunks, result)
        /\ UNCHANGED <<bound, phase, started, last_search, fileVars, chunkVars,
                       cacheVars, searchVars>>

\* collect_all has returned: _chunks = chunk_all(collected).  _init_chunks
\* goes on to save_chunks and update_hashes and returns; sync_sources with
\* force goes on to its first fetch_single_source_raw.
Assign ==
    \E t \in Calls :
        /\ tasks[t].pc = "assign"
        /\ _chunks' = chunk_all(tasks[t].collected)
        /\ bound' = _chunks'
        /\ IF tasks[t].op = "sync_force"
           THEN /\ tasks' = [tasks EXCEPT ![t].pc = "refetch", ![t].i = 1]
                /\ UNCHANGED <<fileVars, phase>>
           ELSE /\ chunks_file' = save_chunks(_chunks')
                /\ hashes_file' = update_hashes(raw_texts_of(tasks[t].collected))
                /\ tasks' = [tasks EXCEPT ![t] =
                                [NewTask EXCEPT !.op = tasks[t].op, !.pc = "done",
                                                !.ret = "refreshed",
                                                !.count = Len(_chunks')]]
                /\ phase' = "serving"
        /\ UNCHANGED <<started, last_search, chunkVars, cacheVars, searchVars>>

\* sync_sources with force: one fetch_single_source_raw completes.
Refetch ==
    \E t \in Calls :
        /\ tasks[t].pc = "refetch"
        /\ \E o \in FetchOutcomes(SOURCES[tasks[t].i].llms_url) :
               tasks' = [tasks EXCEPT
                   ![t].raw_texts = IF o.ok /\ o.text # <<>>
                                    THEN @ @@ (SOURCES[tasks[t].i].key :> o.text)
                                    ELSE @,
                   ![t].i = @ + 1,
                   ![t].pc = IF tasks[t].i = Len(SOURCES) THEN "save" ELSE "refetch"]
        /\ UNCHANGED <<_chunks, bound, phase, started, last_search, fileVars,
                       chunkVars, cacheVars, searchVars>>

\* A variant in which sync_sources saves the list it built from its own
\* collection.
chunks_to_save_own(chunks, collected) == chunk_all(collected)

\* The argument of save_chunks in sync_sources: the module-level _chunks as
\* it is when the call is made.
chunks_to_save(chunks, collected) == chunks

\* sync_sources with force, after its last fetch: save_chunks(_chunks), then
\* update_hashes(raw_texts) if raw_texts is not empty.
Save ==
    \E t \in Calls :
        /\ tasks[t].pc = "save"
        /\ chunks_file' = save_chunks(chunks_to_save(_chunks, tasks[t].collected))
        /\ hashes_file' = IF tasks[t].raw_texts # EmptyMap
                          THEN update_hashes(tasks[t].raw_texts)
                          ELSE hashes_file
        /\ tasks' = [tasks EXCEPT ![t] =
                        [NewTask EXCEPT !.op = tasks[t].op, !.pc = "done",
                                        !.ret = "forced", !.count = Len(_chunks)]]
        /\ UNCHANGED <<_chunks, bound, phase, started, last_search, chunkVars,
                       cacheVars, searchVars>>

\* search_docs(query, source): it has no await.
SearchDocs ==
    \E query \in MainQueries, source \in {NoSource, "tds_mobile"} :
        /\ phase = "serving"
        /\ started < MaxCalls
        /\ started' = started + 1
        /\ last_search' = [done |-> TRUE, chunks |-> _chunks, bound |-> bound,
                           ret |-> search_docs(_chunks, query, source)]
        /\ UNCHANGED <<_chunks, bound, phase, tasks, fileVars, chunkVars,
                       cacheVars, searchVars>>

MainNext ==
    \/ Startup
    \/ CallSync
    \/ CallForce
    \/ CollectFetch
    \/ Assign
    \/ Refetch
    \/ Save
    \/ SearchDocs

-----------------------------------------------------------------------------
(* Specification of the chunker: every document content up to MaxDocLen    *)
(* characters, chunked once.                                               *)

ChunkInit ==
    /\ CacheIdle
    /\ MainIdle
    /\ SearchIdle
    /\ chunks_file = Absent
    /\ hashes_file = Absent
    /\ doc \in {[source |-> "tds_mobile", url |-> "u", title |-> "t", content |-> c] :
                   c \in SeqsUpTo(DocChars, MaxDocLen)}
    /\ chunked = <<>>
    /\ chunk_pc = "start"

\* Which path of chunk_document / _split_chunk handles the content.
SplitPath(text) ==
    LET h1 == _split_by_pattern(text, H1_PATTERN)
        over == {i \in 1..Len(h1) : Len(h1[i]) > MAX_CHUNK_LEN}
    IN  IF over = {} THEN "h1" ELSE "deep"

ChunkDocument ==
    /\ chunk_pc = "start"
    /\ chunked' = chunk_document(doc)
    /\ chunk_pc' = SplitPath(doc.content)
    /\ UNCHANGED <<doc, fileVars, cacheVars, searchVars, mainVars>>

ChunkNext == ChunkDocument

vars == <<chunkVars, fileVars, cacheVars, searchVars, mainVars>>

SpecChunk == ChunkInit /\ [][ChunkNext]_vars

SpecCache == CacheInit /\ [][CacheNext]_vars

SpecSearch == SearchInit /\ [][SearchNext]_vars

SpecMain == MainInit /\ [][MainNext]_vars

-----------------------------------------------------------------------------
(* Claims about the cache layer (SpecCache).                               *)

\* No digest is stored for key k: no hash record, or a record without k.
NoStoredHash(k) ==
    \/ hashes_file.state = "absent"
    \/ hashes_file.state = "ok" /\ k \notin DOMAIN hashes_file.data

\* The digest stored for key k, None when there is none.
StoredDigest(k) ==
    dict_get(IF hashes_file.state = "ok" THEN hashes_file.data ELSE EmptyMap, k)

\* needs_refresh has just been called with a mapping of the one source "a".
AskedAboutA == last_op = "needs_refresh" /\ DOMAIN last_arg = {"a"}

\* The hash record is the one update_hashes last wrote, for source "a" alone.
UpdatedForA == last_update.called /\ DOMAIN last_update.raw = {"a"}

\* C1 as stated: with no stored hash for "a", needs_refresh({a: text1}) is
\* true; after update_hashes({a: text1}) it is false for {a: text1}; and it is
\* true for {a: text2} whenever text2 differs from text1.
C1_Staleness ==
    AskedAboutA =>
        /\ NoStoredHash("a") => last_ret = "true"
        /\ (UpdatedForA /\ last_update.raw = last_arg) => last_ret = "false"
        /\ (UpdatedForA /\ last_update.raw # last_arg) => last_ret = "true"

\* C1 amended: as C1, but the answer after update_hashes({a: text1}) is false
\* only while the persisted fragment cache exists; without it the answer is
\* true.
C1_StalenessWithCache ==
    AskedAboutA =>
        /\ NoStoredHash("a") => last_ret = "true"
        /\ (UpdatedForA /\ last_update.raw = last_arg) =>
               (last_ret = "false" <=> chunks_file.state # "absent")
        /\ (UpdatedForA /\ last_update.raw # last_arg) => last_ret = "true"

\* needs_refresh({a: text1}) answered false after update_hashes({a: text1}),
\* with a fragment cache on disk.
C1_Witness ==
    /\ AskedAboutA
    /\ UpdatedForA
    /\ last_update.raw = last_arg
    /\ last_arg["a"] = text1
    /\ chunks_file.state = "ok"
    /\ last_ret = "false"

\* C2: for every stored hash record, needs_refresh is true exactly when the
\* fragment cache does not exist or some key of its argument has a digest
\* different from the stored one (none stored counts as different); digests
\* stored for other keys play no part.
C2_NeedsRefreshExactly ==
    (last_op = "needs_refresh" /\ hashes_file.state # "malformed") =>
        /\ last_ret \in {"true", "false"}
        /\ last_ret = "true" <=>
               \/ chunks_file.state = "absent"
               \/ \E k \in DOMAIN last_arg :
                      StoredDigest(k) # compute_hash(last_arg[k])

\* needs_refresh answered false although the record holds a digest for "b",
\* which the argument does not mention and which matches neither text.
C2_Witness ==
    /\ last_op = "needs_refresh"
    /\ hashes_file.state = "ok"
    /\ DOMAIN last_arg = {"a"}
    /\ "b" \in DOMAIN hashes_file.data
    /\ hashes_file.data["b"] = compute_hash(<<"z">>)
    /\ last_ret = "false"

-----------------------------------------------------------------------------
(* Claims about the searcher (SpecSearch).                                 *)

SearchKeywords == split_ws(lower(s_query), 1, <<>>)

\* The fragments search considers, by position in s_chunks.
SearchCandidates ==
    {i \in 1..Len(s_chunks) :
        s_source \in {NoSource, ""} \/ s_chunks[i].source = s_source}

\* The match count of every fragment, by position in s_chunks; position 0
\* holds the number of keywords.
MatchCounts ==
    LET kws == SearchKeywords
    IN  [i \in 0..Len(s_chunks) |->
            IF i = 0 THEN Len(kws) ELSE Len(matched_keywords(s_chunks[i], kws))]

HitsOf(cnt) == {i \in SearchCandidates : cnt[i] > 0}

ExactAt(cnt, i) == cnt[i] = cnt[0]

\* Fragment i is ranked before fragment j: exact tier first, then the larger
\* match count, then the earlier position.
RankedBefore(cnt, i, j) ==
    \/ ExactAt(cnt, i) /\ ~ExactAt(cnt, j)
    \/ /\ ExactAt(cnt, i) = ExactAt(cnt, j)
       /\ \/ cnt[i] > cnt[j]
          \/ cnt[i] = cnt[j] /\ i < j

\* The place of every hit in the ranking, counted from 1.
Ranking(cnt) ==
    LET hits == HitsOf(cnt)
    IN  [i \in hits |-> 1 + Cardinality({j \in hits : RankedBefore(cnt, j, i)})]

\* The result entry of fragment i: its fields, its match count and its
\* match ratio as the pair (match count, number of keywords).
ResultFor(cnt, i) ==
    [source      |-> s_chunks[i].source,
     url         |-> s_chunks[i].url,
     header      |-> s_chunks[i].header,
     content     |-> s_chunks[i].content,
     match_count |-> cnt[i],
     match_ratio |-> <<cnt[i], cnt[0]>>]

\* C6: the result of search is the exact tier followed by the partial tier,
\* each ordered by match count descending with equal counts in fragment
\* order, truncated to max_results; no partial match precedes an exact one.
C6_ExactBeforePartial ==
    s_pc = "done" =>
        \A kws \in {SearchKeywords} : \A cnt \in {MatchCounts} :
        \A rank \in {Ranking(cnt)} : \A total \in {Cardinality(DOMAIN rank)} :
            /\ Len(s_result) = IF s_max < total THEN s_max ELSE total
            /\ \A i \in DOMAIN rank :
                   rank[i] <= Len(s_result) =>
                       s_result[rank[i]] = ResultFor(cnt, i)
            /\ \A p, q \in 1..Len(s_result) :
                   (s_result[p].match_count < Len(kws)
                      /\ s_result[q].match_count = Len(kws)) => q < p

\* A search in which an exact match that comes later in the fragment list is
\* returned ahead of partial matches, two partial matches with different
\* counts are reordered, and the limit cuts the ranking short.
C6_Witness ==
    /\ s_pc = "done"
    /\ Len(s_result) = s_max
    /\ s_max >= 2
    /\ \E cnt \in {MatchCounts} : \E hits \in {HitsOf(cnt)} :
           /\ Cardinality(hits) > s_max
           /\ s_result[1].match_count = Len(SearchKeywords)
           /\ s_result[2].match_count < Len(SearchKeywords)
           /\ \E i, j \in hits : i < j /\ ~ExactAt(cnt, i) /\ ExactAt(cnt, j)
           /\ \E i, j \in hits :
                  i < j /\ ~ExactAt(cnt, j) /\ cnt[i] < cnt[j]

\* tok occurs in text as a run of consecutive characters.
Occurs(tok, text) ==
    \E i \in 1..(Len(text) - Len(tok) + 1) :
        SubSeq(text, i, i + Len(tok) - 1) = tok

\* The lower-cased string header + " " + content of a result.
LoweredText(e) == lower(e.header) \o <<" ">> \o lower(e.content)

\* The number of distinct tokens among kws that occur in text.
DistinctTokensIn(kws, text) ==
    Cardinality({kws[k] : k \in {k \in 1..Len(kws) : Occurs(kws[k], text)}})

\* The number of tokens of kws, each counted as often as kws has it, that
\* occur in text.
TokenOccurrencesIn(kws, text) ==
    Cardinality({k \in 1..Len(kws) : Occurs(kws[k], text)})

\* C11 as stated: the match count of every result is the number of distinct
\* lower-cased query tokens that occur in the lower-cased header + " " +
\* content, and the results are in descending order of that number.
C11_DistinctTokenCount ==
    s_pc = "done" =>
        \A kws \in {SearchKeywords} :
        \A distinct \in {[p \in 1..Len(s_result) |->
                             DistinctTokensIn(kws, LoweredText(s_result[p]))]} :
            /\ \A p \in 1..Len(s_result) : s_result[p].match_count = distinct[p]
            /\ \A p, q \in 1..Len(s_result) : p < q => distinct[p] >= distinct[q]

\* C11 as amended: the match count of every result is the number of query
\* tokens, a token repeated in the query counted once per repetition, that
\* occur in the lower-cased header + " " + content; the match ratio is that
\* number over the number of query tokens; and the results are in
\* descending order of that number.
C11_TokenOccurrenceCount ==
    s_pc = "done" =>
        \A kws \in {SearchKeywords} :
        \A occurrences \in {[p \in 1..Len(s_result) |->
                                TokenOccurrencesIn(kws, LoweredText(s_result[p]))]} :
            /\ \A p \in 1..Len(s_result) :
                   /\ s_result[p].match_count = occurrences[p]
                   /\ s_result[p].match_count >= 1
                   /\ s_result[p].match_ratio = <<occurrences[p], Len(kws)>>
            /\ \A p, q \in 1..Len(s_result) :
                   p < q => occurrences[p] >= occurrences[q]

\* A search whose query repeats a token, with a result whose match count
\* exceeds the number of distinct tokens it contains and a later result
\* with a smaller match count.
C11_Witness ==
    /\ s_pc = "done"
    /\ \E j, k \in 1..Len(SearchKeywords) :
           j < k /\ SearchKeywords[j] = SearchKeywords[k]
    /\ \E p, q \in 1..Len(s_result) :
           /\ p < q
           /\ s_result[p].match_count >
                  DistinctTokensIn(SearchKeywords, LoweredText(s_result[p]))
           /\ s_result[q].match_count < s_result[p].match_count

-----------------------------------------------------------------------------
(* Claims about the service (SpecMain).                                    *)

\* C7: a persisted file that is not well-formed JSON is treated as absent:
\* _init_chunks never raises, at startup or in sync_sources, and the server
\* does not abort.
C7_MalformedIsAbsent ==
    /\ phase # "crashed"
    /\ \A t \in Calls : tasks[t].ret # "raised"

\* Task t finishes a refresh in this step: _init_chunks after collecting, or
\* sync_sources with force.
RefreshCompletes(t) ==
    /\ tasks[t].pc \in {"assign", "save"}
    /\ tasks'[t].pc = "done"

\* The hash record of what task t collected.
CollectedHashes(t) ==
    [k \in DOMAIN tasks[t].collected |-> compute_hash(tasks[t].collected[k].raw_text)]

\* C8: when a refresh completes, the persisted fragment cache is the chunking
\* of the documents collected in that refresh and the persisted hash record
\* is exactly the digests of the raw texts collected in it.
C8_RefreshReplacesBoth ==
    [][\A t \in Calls :
          RefreshCompletes(t) =>
              /\ chunks_file' = FileOf(chunk_all(tasks[t].collected))
              /\ hashes_file' = FileOf(CollectedHashes(t))]_vars

\* Task t runs _init_chunks up to its return or its first await in this step.
InitChunksRuns(t) ==
    /\ tasks[t].pc = "new"
    /\ tasks'[t].op \in {"startup", "sync"}

\* A persisted fragment cache that is present and not empty.
UsableCache == chunks_file.state = "ok" /\ chunks_file.data # <<>>

\* C9: with a persisted fragment cache present and not empty, _init_chunks
\* binds _chunks to exactly the persisted list, collects nothing and leaves
\* both files as they are; it starts a collection only without such a cache.
C9_StartupPolicy ==
    [][\A t \in Calls :
          InitChunksRuns(t) =>
              /\ UsableCache =>
                     /\ _chunks' = chunks_file.data
                     /\ tasks'[t].pc = "done"
                     /\ tasks'[t].ret = "cached"
                     /\ UNCHANGED fileVars
              /\ tasks'[t].pc = "collect" => ~UsableCache]_vars

\* The lifespan's _init_chunks found no cache and refreshed; a later
\* sync_sources(force=False) found that cache and returned it.
C9_Witness ==
    /\ tasks[0].ret = "refreshed"
    /\ \E t \in Calls :
           /\ tasks[t].op = "sync"
           /\ tasks[t].ret = "cached"
           /\ tasks[t].count > 0
    /\ chunks_file.state = "ok"
    /\ _chunks = chunks_file.data

\* C10: every search_docs call ranks over the list the latest assignment to
\* _chunks bound, whole: the one before a sync's replacement or the one
\* after it.
C10_SearchSeesWholeList ==
    last_search.done => last_search.chunks = last_search.bound

\* search_docs returned results from the list a forced sync had just
\* assigned, while that sync was still fetching and had saved nothing.
C10_Witness ==
    /\ last_search.done
    /\ last_search.ret.kind = "results"
    /\ \E t \in Calls :
           /\ tasks[t].op = "sync_force"
           /\ tasks[t].pc = "refetch"
           /\ last_search.chunks = chunk_all(tasks[t].collected)
    /\ chunks_file.state = "ok"
    /\ last_search.chunks # chunks_file.data

\* No _init_chunks or sync_sources is between its start and its return.
NoneInFlight == \A t \in Calls : tasks[t].pc \in {"new", "done"}

\* The operations that have returned normally.
Completed == {t \in Calls : tasks[t].pc = "done" /\ tasks[t].ret # "raised"}

\* C12: whenever no _init_chunks or sync_sources is in flight and at least
\* one has completed, the in-memory fragment list equals the list held by
\* the persisted fragment cache, also when the operations overlapped at
\* their awaits.
C12_MemoryEqualsPersisted ==
    (NoneInFlight /\ Completed # {}) =>
        /\ chunks_file.state = "ok"
        /\ chunks_file.data = _chunks

\* The lifespan used the cache, then two forced syncs ran to completion and
\* left a fragment list that is neither the cached one nor empty.
C12_Witness ==
    /\ NoneInFlight
    /\ tasks[0].ret = "cached"
    /\ \E t, u \in Completed :
           /\ t # u
           /\ tasks[t].op = "sync_force"
           /\ tasks[u].op = "sync_force"
    /\ _chunks \notin {<<>>, CachedChunks}
    /\ chunks_file = FileOf(_chunks)

-----------------------------------------------------------------------------
(* Claims about the chunker (SpecChunk).                                   *)

ChunkDone == chunk_pc # "start"

Contents == [i \in 1..Len(chunked) |-> chunked[i].content]

NoSpace(s) == SelectSeq(s, LAMBDA c : ~IsSpace(c))

\* No single line of the document is longer than MAX_CHUNK_LEN.
NoLongLine(text) ==
    LET lines == split_nl(text, 1, <<>>)
    IN  \A i \in 1..Len(lines) : Len(lines[i]) <= MAX_CHUNK_LEN

\* C3: for a document none of whose lines is longer than MAX_CHUNK_LEN, every
\* fragment chunk_document returns has at most MAX_CHUNK_LEN characters.
C3_FragmentBound ==
    (ChunkDone /\ NoLongLine(doc.content)) =>
        \A i \in 1..Len(chunked) : Len(chunked[i].content) <= MAX_CHUNK_LEN

\* An over-length document without long lines whose paragraph was packed line
\* by line into several fragments.
C3_Witness ==
    /\ chunk_pc = "deep"
    /\ NoLongLine(doc.content)
    /\ Len(doc.content) > MAX_CHUNK_LEN
    /\ finditer(doc.content, H2_PATTERN) = <<>>
    /\ finditer(doc.content, H3_PATTERN) = <<>>
    /\ \E p \in 1..Len(re_split_blank(doc.content, 1, <<>>)) :
           Len(re_split_blank(doc.content, 1, <<>>)[p]) > MAX_CHUNK_LEN
    /\ Len(chunked) >= 2

\* C4: every fragment chunk_document returns has content that is non-empty
\* after trimming, whatever the document content.
C4_NonEmptyContent ==
    ChunkDone => \A i \in 1..Len(chunked) : strip(chunked[i].content) # <<>>

\* C5: the fragments' contents, concatenated in output order with whitespace
\* removed, equal the document content with whitespace removed.
C5_Coverage ==
    ChunkDone => NoSpace(Flatten(Contents)) = NoSpace(doc.content)

\* An over-length document with a preamble and a heading, split into several
\* fragments.
C5_Witness ==
    /\ chunk_pc = "deep"
    /\ Len(chunked) >= 3
    /\ NoSpace(doc.content) # <<>>
    /\ finditer(doc.content, H2_PATTERN) # <<>>
    /\ finditer(doc.content, H2_PATTERN)[1] > 1

=============================================================================
